---- MODULE Spec2Model ----
(***************************************************************************)
(* Graph execution engine of opengpts: the agent/action message graph of   *)
(* backend/app/new_agent.py, the configurable agent of backend/app/agent.py *)
(* and the run routes of backend/app/api/runs.py.                          *)
(***************************************************************************)
EXTENDS Integers, Sequences, FiniteSets, TLC

(* ------------------------------ bounds -------------------------------- *)

\* Largest number of tool calls one assistant Message carries.
MaxCalls == 2
\* Largest number of Messages the threads hold together under the free
\* model backend (a final reply may go one beyond).
MaxMsgs == 5
\* A step bound configured by the caller (RunnableConfig recursion_limit).
ConfiguredLimit == 3
\* Largest number of requests the first run slot makes; the second makes one.
MaxRequests == 3

(* ----------------------------- constants ------------------------------ *)

None == "None"
END == "__end__"

\* agent.py:219  _agent.with_config({"recursion_limit": 50})
RECURSION_LIMIT == 50

\* agent.py:73  CHECKPOINTER = PostgresCheckpoint(at=CheckpointAt.END_OF_STEP)
CHECKPOINTER_EndOfRun == [at |-> "END_OF_RUN"]
CHECKPOINTER == [at |-> "END_OF_STEP"]

\* agent.py:62-68  class AgentType
AgentType == {"GPT 3.5 Turbo", "GPT 4 Turbo", "GPT 4 (Azure OpenAI)", "Claude 2",
              "Claude 2 (Amazon Bedrock)", "GEMINI"}
\* new_agent.py:29-37  class LLMType
LLMType == AgentType \cup {"Mixtral", "Ollama"}

DEFAULT_SYSTEM_MESSAGE == "You are a helpful assistant."
RETRIEVAL == "retrieval"

Threads == {1, 2}
Runs == {1, 2}

(* ------------------------------ messages ------------------------------ *)

\* Content is text or a structured payload; val is the payload either way.
Text(s) == [kind |-> "text", val |-> <<s>>]
Obj(s) == [kind |-> "obj", val |-> s]
\* Python str(): a structured payload becomes its text rendering.
Str(c) == [kind |-> "text", val |-> c.val]

Msg(cls, content, calls, call_id, name) ==
    [cls |-> cls, content |-> content, tool_calls |-> calls,
     tool_call_id |-> call_id, name |-> name]

HumanMessage(content) == Msg("HumanMessage", content, <<>>, 0, None)
SystemMessage(content) == Msg("SystemMessage", content, <<>>, 0, None)
FunctionMessage(content, name) == Msg("FunctionMessage", content, <<>>, 0, name)
AIMessage(content, calls) == Msg("AIMessage", content, calls, 0, None)
ToolMessage(content, call_id, name) == Msg("ToolMessage", content, <<>>, call_id, name)
LiberalToolMessage(content, call_id, name) ==
    Msg("LiberalToolMessage", content, <<>>, call_id, name)

\* The tool calls a model reply can carry: call id i names tool ToolOf(i).
ToolOf(i) == IF i % 2 = 1 THEN "ddg_search" ELSE RETRIEVAL
ToolCall(i) == [id |-> i, name |-> ToolOf(i), args |-> <<"q", ToolOf(i)>>]
CallIds == 1 .. MaxCalls
\* A batch lists call ids in ascending or in descending order, so that a
\* call's id need not be its position.
Batches ==
    UNION { { [i \in 1 .. n |-> i], [i \in 1 .. n |-> n + 1 - i] } :
              n \in 0 .. MaxCalls }
Calls(b) == [i \in DOMAIN b |-> ToolCall(b[i])]

IsPrefix(s, t) == Len(s) <= Len(t) /\ SubSeq(t, 1, Len(s)) = s
Last(s) == s[Len(s)]

(* --------------------------- new_agent.py ----------------------------- *)

\* new_agent.py:40-61
get_llm(llm_type) ==
    IF llm_type \in LLMType THEN [err |-> "ok", llm |-> llm_type]
    ELSE [err |-> "ValueError", llm |-> None]

\* new_agent.py:63-77
get_messages_KeepFunction(messages, system_message) ==
    LET conv(m) ==
            IF m.cls = "LiberalToolMessage"
            THEN ToolMessage(Str(m.content), m.tool_call_id, m.name)
            ELSE m
    IN  <<SystemMessage(Text(system_message))>>
            \o [i \in 1 .. Len(messages) |-> conv(messages[i])]
get_messages(messages, system_message) ==
    LET conv(m) ==
            IF m.cls = "LiberalToolMessage"
            THEN ToolMessage(Str(m.content), m.tool_call_id, m.name)
            ELSE IF m.cls = "FunctionMessage"
            THEN HumanMessage(Str(m.content))
            ELSE m
    IN  <<SystemMessage(Text(system_message))>>
            \o [i \in 1 .. Len(messages) |-> conv(messages[i])]

\* new_agent.py:115-122
should_continue_Inverted(messages) ==
    IF Len(Last(messages).tool_calls) = 0 THEN "continue" ELSE "end"
should_continue(messages) ==
    IF Len(Last(messages).tool_calls) = 0 THEN "end" ELSE "continue"

\* new_agent.py:166-184  the mapping of the conditional edge out of "agent"
ConditionalEdge_AlwaysAction(key) == "action"
ConditionalEdge(key) == IF key = "continue" THEN "action" ELSE END

(* --------------------------- configuration --------------------------- *)

\* A Python value that may be None: tools rosters are lists or None.
PyNone == [is_none |-> TRUE, items |-> <<>>]
PyList(items) == [is_none |-> FALSE, items |-> items]

ToolEntry(type) == [type |-> type]
Rosters == {<<>>, <<ToolEntry("ddg_search")>>, <<ToolEntry(RETRIEVAL)>>}

\* The "configurable" mapping of a RunnableConfig; an absent key reads as
\* None (tools, ids, agent_type) or as a falsy flag.  top_level tells whether
\* the caller also put tools, assistant_id and thread_id at the top level of
\* the RunnableConfig, beside "configurable".
Configurable(agent_type, tools, assistant_id, thread_id, interrupt, top_level) ==
    [agent_type |-> agent_type, system_message |-> None, tools |-> tools,
     assistant_id |-> assistant_id, thread_id |-> thread_id,
     interrupt_before_action |-> interrupt, top_level |-> top_level]

\* dict.get(key, default)
Get(value, default) == IF value = None THEN default ELSE value

\* new_agent.py:81-99
get_tools_NoCheck(tools, assistant_id, thread_id) ==
    IF tools.is_none THEN [err |-> "TypeError", tools |-> <<>>]
    ELSE [err |-> "ok",
          tools |-> [i \in 1 .. Len(tools.items) |-> tools.items[i].type]]
get_tools(tools, assistant_id, thread_id) ==
    IF tools.is_none THEN [err |-> "TypeError", tools |-> <<>>]
    ELSE IF /\ \E i \in 1 .. Len(tools.items) : tools.items[i].type = RETRIEVAL
            /\ (assistant_id = None \/ thread_id = None)
    THEN [err |-> "ValueError", tools |-> <<>>]
    ELSE [err |-> "ok",
          tools |-> [i \in 1 .. Len(tools.items) |-> tools.items[i].type]]

\* new_agent.py:102-111  agent(messages, config); response is the reply
\* llm.invoke returns.  invoked tells whether llm.invoke was reached.
agent(messages, config, response) ==
    LET _config == config
        system_message == Get(_config.system_message, DEFAULT_SYSTEM_MESSAGE)
        llm == get_llm(Get(_config.agent_type, "GPT 3.5 Turbo"))
        tools == get_tools(_config.tools, _config.assistant_id, _config.thread_id)
    IN  IF llm.err # "ok"
        THEN [err |-> llm.err, invoked |-> FALSE, prompt |-> <<>>, out |-> <<>>]
        ELSE IF tools.err # "ok"
        THEN [err |-> tools.err, invoked |-> FALSE, prompt |-> <<>>, out |-> <<>>]
        ELSE [err |-> "ok", invoked |-> TRUE,
              prompt |-> get_messages(messages, system_message),
              out |-> <<response>>]

\* The second argument call_tool receives is the RunnableConfig itself, so
\* its .get("tools") reads the top level, not "configurable".
TopLevel(config) ==
    IF config.top_level THEN config
    ELSE [config EXCEPT !.tools = PyNone, !.assistant_id = None, !.thread_id = None]

ToolInvocation(tool, tool_input) == [tool |-> tool, tool_input |-> tool_input]

\* new_agent.py:126-141  the first half of call_tool: the tools and the
\* ToolInvocations built from the last message's tool calls.
call_tool_actions(messages, _config) ==
    LET tools == get_tools(_config.tools, _config.assistant_id, _config.thread_id)
        last_message == Last(messages)
    IN  IF tools.err # "ok" THEN [err |-> tools.err, tools |-> <<>>, actions |-> <<>>]
        ELSE IF last_message.cls # "AIMessage"
        THEN [err |-> "AttributeError", tools |-> <<>>, actions |-> <<>>]
        ELSE [err |-> "ok", tools |-> tools.tools,
              actions |-> [i \in 1 .. Len(last_message.tool_calls) |->
                              ToolInvocation(last_message.tool_calls[i].name,
                                             last_message.tool_calls[i].args)]]

\* langgraph.prebuilt.ToolExecutor, one invocation: the tool's output, or the
\* "not a valid tool" text when the name is not among the tools.
ToolOutput(tools, action) ==
    IF \E i \in 1 .. Len(tools) : tools[i] = action.tool
    THEN Obj(<<"result">> \o action.tool_input)
    ELSE Obj(<<"invalid tool">> \o action.tool_input)

\* new_agent.py:145-153  the second half of call_tool: zip(tool_calls, responses)
call_tool_messages_FirstOnly(last_message, responses) ==
    [i \in 1 .. 1 |->
        LiberalToolMessage(responses[i],
                           last_message.tool_calls[i].id,
                           last_message.tool_calls[i].name)]
call_tool_messages_Reversed(last_message, responses) ==
    [i \in 1 .. Len(responses) |->
        LiberalToolMessage(responses[Len(responses) + 1 - i],
                           last_message.tool_calls[i].id,
                           last_message.tool_calls[i].name)]
call_tool_messages(last_message, responses) ==
    [i \in 1 .. Len(responses) |->
        LiberalToolMessage(responses[i],
                           last_message.tool_calls[i].id,
                           last_message.tool_calls[i].name)]

(* ------------------------------ agent.py ------------------------------ *)

\* agent.py:125-167  the executor get_agent_executor builds: the agent type
\* is checked, interrupt_before_action and CHECKPOINTER are handed on.
get_agent_executor_NoInterrupt(tools, agent_type, interrupt_before_action) ==
    IF agent_type \in AgentType
    THEN [err |-> "ok", interrupt_before_action |-> FALSE,
          checkpoint |-> CHECKPOINTER]
    ELSE [err |-> "ValueError", interrupt_before_action |-> FALSE,
          checkpoint |-> CHECKPOINTER]
get_agent_executor_AnyAgent(tools, agent_type, interrupt_before_action) ==
    [err |-> "ok", interrupt_before_action |-> interrupt_before_action,
     checkpoint |-> CHECKPOINTER]
get_agent_executor(tools, agent_type, interrupt_before_action) ==
    IF agent_type \in AgentType
    THEN [err |-> "ok", interrupt_before_action |-> interrupt_before_action,
          checkpoint |-> CHECKPOINTER]
    ELSE [err |-> "ValueError", interrupt_before_action |-> FALSE,
          checkpoint |-> CHECKPOINTER]

\* agent.py:180-228  ConfigurableAgent.__init__ over the configurable fields
\* (agent.py:371-398): absent fields take the constructor's defaults.
ConfigurableAgent_LibraryLimit(config) ==
    LET tools == IF config.tools.is_none THEN PyList(<<>>) ELSE config.tools
        agent_type == Get(config.agent_type, "GPT 3.5 Turbo")
        _tools == get_tools(tools, config.assistant_id, config.thread_id)
        _agent == get_agent_executor(_tools.tools, agent_type,
                                     config.interrupt_before_action)
    IN  IF _tools.err # "ok"
        THEN [err |-> _tools.err, interrupt_before_action |-> FALSE,
              recursion_limit |-> 0, checkpoint |-> CHECKPOINTER]
        ELSE [err |-> _agent.err,
              interrupt_before_action |-> _agent.interrupt_before_action,
              recursion_limit |-> 25, checkpoint |-> _agent.checkpoint]
ConfigurableAgent(config) ==
    LET tools == IF config.tools.is_none THEN PyList(<<>>) ELSE config.tools
        agent_type == Get(config.agent_type, "GPT 3.5 Turbo")
        _tools == get_tools(tools, config.assistant_id, config.thread_id)
        _agent == get_agent_executor(_tools.tools, agent_type,
                                     config.interrupt_before_action)
    IN  IF _tools.err # "ok"
        THEN [err |-> _tools.err, interrupt_before_action |-> FALSE,
              recursion_limit |-> 0, checkpoint |-> CHECKPOINTER]
        ELSE [err |-> _agent.err,
              interrupt_before_action |-> _agent.interrupt_before_action,
              recursion_limit |-> RECURSION_LIMIT, checkpoint |-> _agent.checkpoint]

(* ------------------------------- state -------------------------------- *)

VARIABLES
    threads,     \* thread id -> whether the thread exists for the calling user
    assistant,   \* the stored assistant: whether it exists, and its config
    llm,         \* the model backend: "free", or "loop" (every reply calls a tool)
    budget,      \* run slot -> number of requests it may still make
    run,         \* run slot -> the request and the executor's position
    ckpt,        \* thread id -> the checkpoints written, oldest first
    lock,        \* thread id -> the run advancing the thread, or 0
    done,        \* thread id -> positions of the tool-call batches executed
    steps_done   \* thread id -> number of steps completed

vars == <<threads, assistant, llm, budget, run, ckpt, lock, done, steps_done>>

NoResp == [kind |-> "none", val |-> <<>>]

DefaultConfig == Configurable(None, PyList(<<>>), None, None, FALSE, FALSE)

IdleRun ==
    [pc |-> "idle", kind |-> None, thread |-> 0, input |-> <<>>,
     recursion_limit |-> 0, limit |-> 0,
     interrupt_before |-> FALSE, interrupt |-> FALSE, config |-> DefaultConfig,
     node |-> None, work |-> <<>>, out |-> <<>>, steps |-> 0, confirmed |-> FALSE,
     tools |-> <<>>, actions |-> <<>>, responses |-> <<>>,
     checkpoint_at |-> None, model_calls |-> 0, tool_calls |-> 0,
     writes |-> 0, err |-> None]

\* A run slot takes a new request when no run of it is under way.
Returned == {"idle", "rejected", "config_error", "end", "suspended", "error",
             "recursion_error"}
InStep == {"step_done", "action_wait"}
InFlight == {"at_node"} \cup InStep

(* ------------------- checkpoint store (app.checkpoint) ---------------- *)

NoCheckpoint == [index |-> 0, state |-> <<>>, next |-> None, pending |-> FALSE]

\* readLatest(threadId)
ReadLatest(t) == IF Len(ckpt[t]) = 0 THEN NoCheckpoint ELSE Last(ckpt[t])

\* write(threadId, stepIndex, state): the next checkpoint of the thread
CheckpointWrite_Rendered(t, state, next, pending) ==
    Append(ckpt[t], [index |-> ReadLatest(t).index + 1,
                     state |-> Tail(get_messages(state, DEFAULT_SYSTEM_MESSAGE)),
                     next |-> next, pending |-> pending])
CheckpointWrite(t, state, next, pending) ==
    Append(ckpt[t], [index |-> ReadLatest(t).index + 1, state |-> state,
                     next |-> next, pending |-> pending])

(* ----------------------------- runs.py -------------------------------- *)

\* get_langserve().runs.create / runs.stream: the assistant's config is
\* resolved by ConfigurableAgent, recursion_limit of the request's config
\* overrides the bound one, interrupt_before adds to the executor's own flag.
Launch(r, t, input, limit, interrupt_before, kind) ==
    LET built == ConfigurableAgent(assistant.config)
        req == [IdleRun EXCEPT !.kind = kind, !.thread = t, !.input = input,
                               !.recursion_limit = limit,
                               !.interrupt_before = interrupt_before]
    IN  IF ~assistant.exists
        THEN run' = [run EXCEPT ![r] = [req EXCEPT !.pc = "rejected"]]
        ELSE IF built.err # "ok"
        THEN run' = [run EXCEPT ![r] =
                        [req EXCEPT !.pc = "config_error", !.err = built.err,
                                    !.config = assistant.config]]
        ELSE run' = [run EXCEPT ![r] =
                        [req EXCEPT !.pc = "accepted",
                                    !.config = assistant.config,
                                    !.checkpoint_at = built.checkpoint.at,
                                    !.interrupt = built.interrupt_before_action
                                                    \/ interrupt_before,
                                    !.limit = IF limit # 0 THEN limit
                                              ELSE built.recursion_limit]]

\* The requests the model takes: new input only while the thread has room.
Inputs == {<<>>, <<HumanMessage(Text("q"))>>}
Limits == {0, ConfiguredLimit}
RECURSIVE Held(_)
Held(ts) ==
    IF ts = {} THEN 0
    ELSE LET t == CHOOSE x \in ts : TRUE
         IN  Len(ReadLatest(t).state) + Held(ts \ {t})
Admissible(t, input) ==
    IF llm = "loop" THEN Len(input) > 0 /\ Len(ckpt[t]) = 0
    ELSE Len(input) = 0 \/ Held(Threads) + Len(input) < MaxMsgs

\* runs.py:30-41
create_run_NoThreadCheck(r, t, input, limit) ==
    /\ budget[r] > 0
    /\ run[r].pc \in Returned
    /\ Admissible(t, input)
    /\ Launch(r, t, input, limit, FALSE, "create")
    /\ budget' = [budget EXCEPT ![r] = @ - 1]
    /\ UNCHANGED <<threads, assistant, llm, ckpt, lock, done, steps_done>>
create_run(r, t, input, limit) ==
    /\ budget[r] > 0
    /\ run[r].pc \in Returned
    /\ Admissible(t, input)
    /\ IF ~threads[t]
       THEN run' = [run EXCEPT ![r] = [IdleRun EXCEPT !.pc = "rejected",
                                          !.kind = "create", !.thread = t]]
       ELSE Launch(r, t, input, limit, FALSE, "create")
    /\ budget' = [budget EXCEPT ![r] = @ - 1]
    /\ UNCHANGED <<threads, assistant, llm, ckpt, lock, done, steps_done>>

\* runs.py:44-73
stream_run_FromPayload(r, t, input, limit) ==
    /\ budget[r] > 0
    /\ run[r].pc \in Returned
    /\ Admissible(t, input)
    /\ IF ~threads[t] \/ ~assistant.exists
       THEN run' = [run EXCEPT ![r] = [IdleRun EXCEPT !.pc = "rejected",
                                          !.kind = "stream", !.thread = t]]
       ELSE Launch(r, t, input, limit, limit # 0, "stream")
    /\ budget' = [budget EXCEPT ![r] = @ - 1]
    /\ UNCHANGED <<threads, assistant, llm, ckpt, lock, done, steps_done>>
stream_run_AlwaysInterrupt(r, t, input, limit) ==
    /\ budget[r] > 0
    /\ run[r].pc \in Returned
    /\ Admissible(t, input)
    /\ IF ~threads[t] \/ ~assistant.exists
       THEN run' = [run EXCEPT ![r] = [IdleRun EXCEPT !.pc = "rejected",
                                          !.kind = "stream", !.thread = t]]
       ELSE Launch(r, t, input, limit, TRUE, "stream")
    /\ budget' = [budget EXCEPT ![r] = @ - 1]
    /\ UNCHANGED <<threads, assistant, llm, ckpt, lock, done, steps_done>>
stream_run(r, t, input, limit) ==
    /\ budget[r] > 0
    /\ run[r].pc \in Returned
    /\ Admissible(t, input)
    /\ IF ~threads[t] \/ ~assistant.exists
       THEN run' = [run EXCEPT ![r] = [IdleRun EXCEPT !.pc = "rejected",
                                          !.kind = "stream", !.thread = t]]
       ELSE Launch(r, t, input, limit,
                   assistant.config.interrupt_before_action, "stream")
    /\ budget' = [budget EXCEPT ![r] = @ - 1]
    /\ UNCHANGED <<threads, assistant, llm, ckpt, lock, done, steps_done>>

(* --------------------------- graph executor --------------------------- *)

\* new_agent.py:163  workflow.set_entry_point("agent")
EntryPoint == "agent"

\* new_agent.py:166-188  the edges: agent -> should_continue -> action | END,
\* and action -> agent.
NextNode_ActionEnds(node, messages) ==
    IF node = "agent" THEN ConditionalEdge(should_continue(messages))
    ELSE END
NextNode(node, messages) ==
    IF node = "agent" THEN ConditionalEdge(should_continue(messages))
    ELSE "agent"

\* new_agent.py:155  workflow = MessageGraph(): what a node returns is
\* appended to the State.
AppendMessages_Canonical(messages, out) ==
    Tail(get_messages(messages, DEFAULT_SYSTEM_MESSAGE)) \o out
AppendMessages(messages, out) == messages \o out

\* The checkpoint store lets one run at a time advance a thread.
CanTake_Always(t) == TRUE
CanTake(t) == lock[t] = 0

Release(t) == lock' = [lock EXCEPT ![t] = 0]

\* The run invocation begins: it takes the thread, loads the latest
\* checkpoint, and enters the graph at the entry point with new input, or at
\* the pending node when re-invoked without input on a pending checkpoint.
Start_Resumes(me, latest) == me.input = <<>> /\ latest.pending
Start(r) ==
    LET me == run[r]
        t == me.thread
        latest == ReadLatest(t)
    IN  /\ me.pc = "accepted"
        /\ CanTake(t)
        /\ IF me.input # <<>>
           THEN /\ run' = [run EXCEPT ![r].pc = "at_node", ![r].node = EntryPoint,
                                      ![r].work = latest.state \o me.input]
                /\ lock' = [lock EXCEPT ![t] = r]
           ELSE IF Start_Resumes(me, latest)
           THEN /\ run' = [run EXCEPT ![r].pc = "at_node", ![r].node = "action",
                                      ![r].work = latest.state,
                                      ![r].confirmed = TRUE]
                /\ lock' = [lock EXCEPT ![t] = r]
           ELSE /\ run' = [run EXCEPT ![r].pc = "end", ![r].work = latest.state]
                /\ UNCHANGED lock
        /\ UNCHANGED <<threads, assistant, llm, budget, ckpt, done, steps_done>>

\* The replies the model backend can give to the working State.
Replies(t, work) ==
    IF llm = "loop" THEN {<<1>>}
    ELSE { b \in Batches :
             Len(b) = 0 \/ Held(Threads \ {t}) + Len(work) + 1 + Len(b) <= MaxMsgs }

Fail(r, err) ==
    /\ run' = [run EXCEPT ![r].pc = "error", ![r].err = err]
    /\ Release(run[r].thread)

\* The AGENT node runs: new_agent.py:102-111 on the working State.
AgentInvoke(r) ==
    LET me == run[r]
    IN  /\ me.pc = "at_node"
        /\ me.node = "agent"
        /\ \E b \in Replies(me.thread, me.work) :
              LET res == agent(me.work, me.config, AIMessage(Text("a"), Calls(b)))
              IN  IF res.err # "ok"
                  THEN Fail(r, res.err)
                  ELSE /\ run' = [run EXCEPT ![r].pc = "step_done",
                                             ![r].out = res.out,
                                             ![r].model_calls = @ + 1]
                       /\ UNCHANGED lock
        /\ UNCHANGED <<threads, assistant, llm, budget, ckpt, done, steps_done>>

\* llm.invoke raises (transport, auth, rate limit): new_agent.py:110
AgentInvokeFails_Retry(r) ==
    LET me == run[r]
        res == agent(me.work, me.config, AIMessage(Text("a"), <<>>))
    IN  /\ me.pc = "at_node"
        /\ me.node = "agent"
        /\ res.err = "ok"
        /\ run' = [run EXCEPT ![r].pc = "step_done",
                              ![r].out = res.out,
                              ![r].model_calls = @ + 2]
        /\ UNCHANGED <<threads, assistant, llm, budget, ckpt, lock, done, steps_done>>
AgentInvokeFails(r) ==
    LET me == run[r]
        res == agent(me.work, me.config, AIMessage(Text("a"), <<>>))
    IN  /\ me.pc = "at_node"
        /\ me.node = "agent"
        /\ res.err = "ok"
        /\ run' = [run EXCEPT ![r].pc = "error",
                              ![r].err = "ModelInvocationError",
                              ![r].model_calls = @ + 1]
        /\ Release(me.thread)
        /\ UNCHANGED <<threads, assistant, llm, budget, ckpt, done, steps_done>>

\* The ACTION node starts: new_agent.py:125-143, up to the dispatch of the
\* batch by tool_executor.abatch.
ActionDispatch(r) ==
    LET me == run[r]
        res == call_tool_actions(me.work, TopLevel(me.config))
    IN  /\ me.pc = "at_node"
        /\ me.node = "action"
        /\ IF res.err # "ok"
           THEN Fail(r, res.err)
           ELSE /\ run' = [run EXCEPT ![r].pc = "action_wait",
                                      ![r].tools = res.tools,
                                      ![r].actions = res.actions,
                                      ![r].responses =
                                          [i \in 1 .. Len(res.actions) |-> NoResp],
                                      ![r].tool_calls = @ + Len(res.actions)]
                /\ UNCHANGED lock
        /\ UNCHANGED <<threads, assistant, llm, budget, ckpt, done, steps_done>>

\* One call of the batch returns; the calls complete in any order, and abatch
\* keeps each result at the position of its invocation.
ToolReturn(r, i) ==
    LET me == run[r]
    IN  /\ me.pc = "action_wait"
        /\ i \in 1 .. Len(me.actions)
        /\ me.responses[i] = NoResp
        /\ run' = [run EXCEPT ![r].responses[i] =
                                  ToolOutput(me.tools, me.actions[i])]
        /\ UNCHANGED <<threads, assistant, llm, budget, ckpt, lock, done, steps_done>>

\* One call of the batch raises: abatch raises, call_tool returns nothing.
ToolFails_PartialCredit(r, i) ==
    LET me == run[r]
        got == SelectSeq([k \in 1 .. Len(me.actions) |->
                             LiberalToolMessage(me.responses[k],
                                                Last(me.work).tool_calls[k].id,
                                                Last(me.work).tool_calls[k].name)],
                         LAMBDA m : m.content # NoResp)
    IN  /\ me.pc = "action_wait"
        /\ i \in 1 .. Len(me.actions)
        /\ me.responses[i] = NoResp
        /\ run' = [run EXCEPT ![r].pc = "step_done", ![r].out = got]
        /\ UNCHANGED <<threads, assistant, llm, budget, ckpt, lock, done, steps_done>>
ToolFails(r, i) ==
    LET me == run[r]
    IN  /\ me.pc = "action_wait"
        /\ i \in 1 .. Len(me.actions)
        /\ me.responses[i] = NoResp
        /\ run' = [run EXCEPT ![r].pc = "error",
                              ![r].err = "ToolExecutionError"]
        /\ Release(me.thread)
        /\ UNCHANGED <<threads, assistant, llm, budget, ckpt, done, steps_done>>

\* abatch returns once every call has: new_agent.py:143-153
ActionJoin_Eager(r) ==
    LET me == run[r]
    IN  /\ me.pc = "action_wait"
        /\ \E i \in 1 .. Len(me.actions) : me.responses[i] # NoResp
        /\ run' = [run EXCEPT ![r].pc = "step_done",
                              ![r].out = call_tool_messages(Last(me.work),
                                                            me.responses)]
        /\ UNCHANGED <<threads, assistant, llm, budget, ckpt, lock, done, steps_done>>
ActionJoin(r) ==
    LET me == run[r]
    IN  /\ me.pc = "action_wait"
        /\ \A i \in 1 .. Len(me.actions) : me.responses[i] # NoResp
        /\ run' = [run EXCEPT ![r].pc = "step_done",
                              ![r].out = call_tool_messages(Last(me.work),
                                                            me.responses)]
        /\ UNCHANGED <<threads, assistant, llm, budget, ckpt, lock, done, steps_done>>

\* The step completes: the node's Messages are appended, the checkpoint is
\* written, the outgoing edge chooses the next node, and the run returns at
\* END, at the step bound, or before an unconfirmed ACTION.
StepEnd_SharedStore(r) ==
    LET me == run[r]
        t == me.thread
        state == AppendMessages(me.work, me.out)
        next == NextNode(me.node, state)
        steps == me.steps + 1
        over == next # END /\ steps >= me.limit
        suspend == next = "action" /\ me.interrupt /\ ~over
        returns == next = END \/ over \/ suspend
        persist == me.checkpoint_at = "END_OF_STEP" \/ returns
    IN  /\ me.pc = "step_done"
        /\ run' = [run EXCEPT
                     ![r].pc = IF next = END THEN "end"
                               ELSE IF over THEN "recursion_error"
                               ELSE IF suspend THEN "suspended"
                               ELSE "at_node",
                     ![r].node = next,
                     ![r].work = state,
                     ![r].out = <<>>,
                     ![r].steps = steps,
                     ![r].confirmed = FALSE,
                     ![r].writes = IF persist THEN @ + 1 ELSE @]
        /\ ckpt' = IF persist
                   THEN [u \in Threads |-> CheckpointWrite(u, state, next, suspend)]
                   ELSE ckpt
        /\ IF returns THEN Release(t) ELSE UNCHANGED lock
        /\ done' = IF me.node = "action"
                   THEN [done EXCEPT ![t] = @ \cup {Len(me.work)}]
                   ELSE done
        /\ steps_done' = [steps_done EXCEPT ![t] = @ + 1]
        /\ UNCHANGED <<threads, assistant, llm, budget>>
StepEnd(r) ==
    LET me == run[r]
        t == me.thread
        state == AppendMessages(me.work, me.out)
        next == NextNode(me.node, state)
        steps == me.steps + 1
        over == next # END /\ steps >= me.limit
        suspend == next = "action" /\ me.interrupt /\ ~over
        returns == next = END \/ over \/ suspend
        persist == me.checkpoint_at = "END_OF_STEP" \/ returns
    IN  /\ me.pc = "step_done"
        /\ run' = [run EXCEPT
                     ![r].pc = IF next = END THEN "end"
                               ELSE IF over THEN "recursion_error"
                               ELSE IF suspend THEN "suspended"
                               ELSE "at_node",
                     ![r].node = next,
                     ![r].work = state,
                     ![r].out = <<>>,
                     ![r].steps = steps,
                     ![r].confirmed = FALSE,
                     ![r].writes = IF persist THEN @ + 1 ELSE @]
        /\ ckpt' = IF persist
                   THEN [ckpt EXCEPT ![t] = CheckpointWrite(t, state, next, suspend)]
                   ELSE ckpt
        /\ IF returns THEN Release(t) ELSE UNCHANGED lock
        /\ done' = IF me.node = "action"
                   THEN [done EXCEPT ![t] = @ \cup {Len(me.work)}]
                   ELSE done
        /\ steps_done' = [steps_done EXCEPT ![t] = @ + 1]
        /\ UNCHANGED <<threads, assistant, llm, budget>>

\* The write of the step's checkpoint fails: the run is aborted, the State
\* the step produced is dropped with the run's working copy, and the thread
\* keeps its latest checkpoint.
CheckpointWriteFails_Proceeds(r) ==
    LET me == run[r]
        t == me.thread
        state == AppendMessages(me.work, me.out)
        next == NextNode(me.node, state)
        steps == me.steps + 1
        over == next # END /\ steps >= me.limit
        suspend == next = "action" /\ me.interrupt /\ ~over
        returns == next = END \/ over \/ suspend
    IN  /\ me.pc = "step_done"
        /\ me.checkpoint_at = "END_OF_STEP" \/ returns
        /\ run' = [run EXCEPT
                     ![r].pc = IF next = END THEN "end"
                               ELSE IF over THEN "recursion_error"
                               ELSE IF suspend THEN "suspended"
                               ELSE "at_node",
                     ![r].node = next,
                     ![r].work = state,
                     ![r].out = <<>>,
                     ![r].steps = steps,
                     ![r].confirmed = FALSE]
        /\ IF returns THEN Release(t) ELSE UNCHANGED lock
        /\ UNCHANGED <<threads, assistant, llm, budget, ckpt, done, steps_done>>
CheckpointWriteFails(r) ==
    LET me == run[r]
        t == me.thread
        state == AppendMessages(me.work, me.out)
        next == NextNode(me.node, state)
        over == next # END /\ me.steps + 1 >= me.limit
        suspend == next = "action" /\ me.interrupt /\ ~over
        returns == next = END \/ over \/ suspend
    IN  /\ me.pc = "step_done"
        /\ me.checkpoint_at = "END_OF_STEP" \/ returns
        /\ run' = [run EXCEPT ![r].pc = "error",
                              ![r].err = "CheckpointWriteError",
                              ![r].out = <<>>]
        /\ Release(t)
        /\ UNCHANGED <<threads, assistant, llm, budget, ckpt, done, steps_done>>

(* --------------------------- specifications --------------------------- *)

InitCommon ==
    /\ run = [r \in Runs |-> IdleRun]
    /\ ckpt = [t \in Threads |-> <<>>]
    /\ lock = [t \in Threads |-> 0]
    /\ done = [t \in Threads |-> {}]
    /\ steps_done = [t \in Threads |-> 0]

\* The configurations of a working assistant: a known agent type, a search
\* tool, both ids; the confirmation flag and the top-level copy vary.
MainConfigs ==
    { Configurable("Claude 2", PyList(<<ToolEntry("ddg_search")>>), "a1", "t1",
                   ib, top) : ib \in BOOLEAN, top \in BOOLEAN }

\* One client working on two threads, request after request.
Init ==
    /\ InitCommon
    /\ threads = [t \in Threads |-> TRUE]
    /\ assistant \in { [exists |-> TRUE, config |-> c] : c \in MainConfigs }
    /\ llm = "free"
    /\ budget = [r \in Runs |-> IF r = 1 THEN MaxRequests ELSE 0]

\* Two clients working on one thread at the same time; the other thread does
\* not exist, and the thread's assistant may have been deleted.
InitConc ==
    /\ InitCommon
    /\ threads = [t \in Threads |-> t = 1]
    /\ assistant \in { [exists |-> TRUE, config |-> c] :
                         c \in { m \in MainConfigs : m.top_level } }
                     \cup { [exists |-> FALSE, config |-> DefaultConfig] }
    /\ llm = "free"
    /\ budget = [r \in Runs |-> IF r = 1 THEN 2 ELSE 1]

\* Every configuration an assistant can store, one request.
AgentTypes == {None, "Claude 2", "Mixtral", "bogus"}
Ids == {<<None, None>>, <<"a1", None>>, <<None, "t1">>, <<"a1", "t1">>}
Configs ==
    { Configurable(a, tl, ids[1], ids[2], ib, top) :
        a \in AgentTypes,
        tl \in {PyNone} \cup { PyList(ro) : ro \in Rosters },
        ids \in Ids, ib \in BOOLEAN, top \in BOOLEAN }
InitConfig ==
    /\ InitCommon
    /\ threads = [t \in Threads |-> t = 1]
    /\ assistant \in { [exists |-> TRUE, config |-> c] : c \in Configs }
    /\ llm = "free"
    /\ budget = [r \in Runs |-> IF r = 1 THEN 1 ELSE 0]

\* A model backend whose every reply calls a tool; one client, a request on
\* each thread.
InitLoop ==
    /\ InitCommon
    /\ threads = [t \in Threads |-> TRUE]
    /\ assistant \in { [exists |-> TRUE, config |-> c] :
                         c \in { m \in MainConfigs :
                                   m.top_level /\ ~m.interrupt_before_action } }
    /\ llm = "loop"
    /\ budget = [r \in Runs |-> IF r = 1 THEN 2 ELSE 0]

\* Two clients, one request each, on two threads.
InitThreads ==
    /\ InitCommon
    /\ threads = [t \in Threads |-> TRUE]
    /\ assistant \in { [exists |-> TRUE, config |-> c] :
                         c \in { m \in MainConfigs : m.top_level } }
    /\ llm = "free"
    /\ budget = [r \in Runs |-> 1]

Next ==
    \/ \E r \in Runs, t \in Threads, input \in Inputs, limit \in Limits :
          create_run(r, t, input, limit)
    \/ \E r \in Runs, t \in Threads, input \in Inputs, limit \in Limits :
          stream_run(r, t, input, limit)
    \/ \E r \in Runs : Start(r)
    \/ \E r \in Runs : AgentInvoke(r)
    \/ \E r \in Runs : AgentInvokeFails(r)
    \/ \E r \in Runs : ActionDispatch(r)
    \/ \E r \in Runs, i \in 1 .. MaxCalls : ToolReturn(r, i)
    \/ \E r \in Runs, i \in 1 .. MaxCalls : ToolFails(r, i)
    \/ \E r \in Runs : ActionJoin(r)
    \/ \E r \in Runs : StepEnd(r)
    \/ \E r \in Runs : CheckpointWriteFails(r)

\* A client that sends Messages of every class: one request, one thread.
AnyMessages ==
    { HumanMessage(Text("q")), SystemMessage(Text("s")),
      AIMessage(Text("a"), <<>>),
      FunctionMessage(Text("f"), "fn"), FunctionMessage(Obj(<<"f">>), "fn"),
      ToolMessage(Text("r"), 1, "ddg_search"),
      LiberalToolMessage(Obj(<<"r">>), 1, "ddg_search") }
AnyInputs ==
    { <<m>> : m \in AnyMessages }
        \cup { <<m, n>> : m \in AnyMessages, n \in {HumanMessage(Text("q")),
                                                     FunctionMessage(Obj(<<"f">>), "fn")} }
InitAdapter ==
    /\ InitCommon
    /\ threads = [t \in Threads |-> t = 1]
    /\ assistant \in { [exists |-> TRUE, config |-> [c EXCEPT !.system_message = sm]] :
                         c \in { m \in MainConfigs : m.top_level },
                         sm \in {None, "Be brief."} }
    /\ llm = "free"
    /\ budget = [r \in Runs |-> IF r = 1 THEN 1 ELSE 0]

NextAdapter ==
    \/ \E r \in Runs, t \in Threads, input \in AnyInputs, limit \in Limits :
          create_run(r, t, input, limit)
    \/ \E r \in Runs, t \in Threads, input \in AnyInputs, limit \in Limits :
          stream_run(r, t, input, limit)
    \/ \E r \in Runs : Start(r)
    \/ \E r \in Runs : AgentInvoke(r)
    \/ \E r \in Runs : AgentInvokeFails(r)
    \/ \E r \in Runs : ActionDispatch(r)
    \/ \E r \in Runs, i \in 1 .. MaxCalls : ToolReturn(r, i)
    \/ \E r \in Runs, i \in 1 .. MaxCalls : ToolFails(r, i)
    \/ \E r \in Runs : ActionJoin(r)
    \/ \E r \in Runs : StepEnd(r)
    \/ \E r \in Runs : CheckpointWriteFails(r)

Spec == Init /\ [][Next]_vars
SpecAdapter == InitAdapter /\ [][NextAdapter]_vars
SpecThreads == InitThreads /\ [][Next]_vars
SpecConc == InitConc /\ [][Next]_vars
SpecConfig == InitConfig /\ [][Next]_vars
SpecLoop == InitLoop /\ [][Next]_vars

(* ------------------------------- claims ------------------------------- *)

Launched(r) == run[r].pc \notin {"idle", "rejected"}
ToolCallsOf(m) == Len(m.tool_calls)

\* C1: the routing predicate answers "continue" exactly when the last
\* Message of the State carries at least one tool call and "end" otherwise,
\* and after an AGENT step "continue" leads to ACTION and "end" to END.
C1_Routing ==
    \A t \in Threads : \A i \in 1 .. Len(ckpt[t]) :
        LET c == ckpt[t][i]
            m == Last(c.state)
        IN  /\ should_continue(c.state) =
                  (IF ToolCallsOf(m) >= 1 THEN "continue" ELSE "end")
            /\ m.cls = "AIMessage" =>
                  c.next = (IF ToolCallsOf(m) >= 1 THEN "action" ELSE END)

\* A thread whose checkpoints show a reply with several tool calls routed to
\* ACTION and a reply with none routed to END.
C1_Witness ==
    \E t \in Threads : \E i, j \in 1 .. Len(ckpt[t]) :
        /\ Last(ckpt[t][i].state).cls = "AIMessage"
        /\ ToolCallsOf(Last(ckpt[t][i].state)) = 2
        /\ ckpt[t][i].next = "action"
        /\ Last(ckpt[t][j].state).cls = "AIMessage"
        /\ ToolCallsOf(Last(ckpt[t][j].state)) = 0
        /\ ckpt[t][j].next = END

\* The step bound of a request: the configured one, else the default.
BoundOf(r) ==
    IF run[r].recursion_limit # 0 THEN run[r].recursion_limit ELSE RECURSION_LIMIT

\* C2: with a model backend that never replies without a tool call a run
\* never ends normally; it executes no step beyond its bound and fails with
\* the recursion-limit error exactly at the bound: step 50 by default, the
\* configured bound otherwise.
C2_StepBound ==
    \A r \in Runs :
        /\ run[r].steps <= BoundOf(r)
        /\ run[r].pc \in InFlight => run[r].steps < BoundOf(r)
        /\ run[r].pc # "end"
        /\ run[r].pc = "recursion_error" => run[r].steps = BoundOf(r)
        /\ (Launched(r) /\ run[r].steps = BoundOf(r)) => run[r].pc = "recursion_error"

\* A run failed at the configured bound after an earlier run, on the other
\* thread, was stopped at step 50 under the default bound.
C2_Witness ==
    \E r \in Runs : \E t \in Threads :
        /\ run[r].pc = "recursion_error"
        /\ run[r].recursion_limit = ConfiguredLimit
        /\ run[r].steps = ConfiguredLimit
        /\ t # run[r].thread
        /\ Len(ckpt[t]) = RECURSION_LIMIT
        /\ Last(ckpt[t]).next # END

\* The resolved configuration of a started run asks for confirmation.
FlagSet(r) ==
    /\ run[r].pc \notin {"idle", "rejected", "config_error"}
    /\ run[r].config.interrupt_before_action
\* The run is at, or inside, the ACTION node.
AtAction(r) ==
    \/ run[r].pc = "at_node" /\ run[r].node = "action"
    \/ run[r].pc = "action_wait"
    \/ run[r].pc = "step_done" /\ run[r].node = "action"
\* The run returns to its caller before an ACTION.
Suspends(r) == run[r].pc # "suspended" /\ run'[r].pc = "suspended"

\* C3: with interrupt_before_action set in the resolved configuration, a
\* run is at or inside ACTION only when that batch was confirmed by a
\* re-invocation on the pending checkpoint; otherwise it returns to the
\* caller with the thread's latest checkpoint tagged pending, holding the
\* unanswered tool calls, none of them executed.
C3_ConfirmBeforeAction ==
    /\ [](\A r \in Runs : (FlagSet(r) /\ AtAction(r)) => run[r].confirmed)
    /\ [][\A r \in Runs :
            (Suspends(r) /\ run[r].config.interrupt_before_action) =>
                LET t == run[r].thread
                    latest == Last(ckpt'[t])
                IN  /\ Len(ckpt'[t]) = Len(ckpt[t]) + 1
                    /\ latest.pending
                    /\ latest.next = "action"
                    /\ latest.state = run'[r].work
                    /\ ToolCallsOf(Last(latest.state)) >= 1
                    /\ Len(latest.state) \notin done'[t]
                    /\ run'[r].tool_calls = run[r].tool_calls
                    /\ lock'[t] = 0]_vars

\* A run requested through create_run, with the flag set, is suspended
\* before its first ACTION.
C3_Witness ==
    \E r \in Runs :
        /\ run[r].pc = "suspended"
        /\ run[r].kind = "create"
        /\ run[r].config.interrupt_before_action
        /\ run[r].tool_calls = 0
        /\ ReadLatest(run[r].thread).pending

\* The batch the run is executing, or has just executed: the position in the
\* State of the assistant Message that carries it.
InBatch(r) ==
    \/ run[r].pc = "action_wait"
    \/ run[r].pc = "step_done" /\ run[r].node = "action"
\* A re-invocation without input that found nothing pending and did nothing.
NoOpResume(r) ==
    /\ run[r].pc = "end"
    /\ run[r].input = <<>>
    /\ run[r].steps = 0
    /\ run[r].tool_calls = 0

RetrievalWithoutIds(config) ==
    /\ ~config.tools.is_none
    /\ \E i \in 1 .. Len(config.tools.items) : config.tools.items[i].type = RETRIEVAL
    /\ (config.assistant_id = None \/ config.thread_id = None)
\* Nothing of the run was executed.
NeverStarted(r) ==
    /\ run[r].steps = 0
    /\ run[r].model_calls = 0
    /\ run[r].tool_calls = 0
    /\ run[r].writes = 0
    /\ run[r].work = <<>>
    /\ run[r].node = None

\* C5: a request whose configuration lists a retrieval tool while assistant
\* id or thread id is absent is refused with the ValueError of the
\* configuration check: no step starts, no model call and no tool dispatch
\* is made, and no checkpoint is written.
C5_RetrievalPrerequisite ==
    \A r \in Runs :
        (Launched(r) /\ RetrievalWithoutIds(assistant.config)) =>
            /\ run[r].pc = "config_error"
            /\ run[r].err = "ValueError"
            /\ NeverStarted(r)
            /\ ckpt[run[r].thread] = <<>>

\* A request refused for a retrieval entry with the thread id absent.
C5_Witness ==
    \E r \in Runs :
        /\ run[r].pc = "config_error"
        /\ RetrievalWithoutIds(run[r].config)
        /\ run[r].config.assistant_id # None
        /\ run[r].config.agent_type \in AgentType

\* C6: a request whose agent type is not a known tag is refused with the
\* ValueError of the configuration check: no model call, no tool call and no
\* checkpoint write is made for it.
C6_UnknownAgentType ==
    \A r \in Runs :
        (Launched(r) /\ Get(assistant.config.agent_type, "GPT 3.5 Turbo") \notin AgentType) =>
            /\ run[r].pc = "config_error"
            /\ run[r].err = "ValueError"
            /\ NeverStarted(r)
            /\ ckpt[run[r].thread] = <<>>

\* A request refused for its agent type alone: the roster and ids are fine.
C6_Witness ==
    \E r \in Runs :
        /\ run[r].pc = "config_error"
        /\ run[r].config.agent_type = "bogus"
        /\ ~RetrievalWithoutIds(run[r].config)
        /\ ~run[r].config.tools.is_none

\* The run has finished an ACTION step's node and holds what it produced.
ActionDone(r) == run[r].pc = "step_done" /\ run[r].node = "action"
\* What the invocation of a tool call yields, under the run's tools.
ResultOf(r, call) == ToolOutput(run[r].tools, ToolInvocation(call.name, call.args))

\* C7: an ACTION step produces exactly one tool-role Message per tool call of
\* the latest assistant Message, in the calls' order, and the Message with
\* tool_call_id = k holds the result of the invocation with call id k,
\* whatever order the concurrent calls completed in.
C7_ToolResultPairing ==
    \A r \in Runs :
        ActionDone(r) =>
            LET calls == Last(run[r].work).tool_calls
                out == run[r].out
            IN  /\ Len(out) = Len(calls)
                /\ \A i \in 1 .. Len(out) :
                      /\ out[i].cls = "LiberalToolMessage"
                      /\ out[i].tool_call_id = calls[i].id
                      /\ out[i].name = calls[i].name
                /\ \A k \in CallIds :
                      \A i \in 1 .. Len(out), j \in 1 .. Len(calls) :
                          (out[i].tool_call_id = k /\ calls[j].id = k) =>
                              out[i].content = ResultOf(r, calls[j])

\* An ACTION step of two calls whose ids are not their positions, and whose
\* results differ.
C7_Witness ==
    \E r \in Runs :
        /\ ActionDone(r)
        /\ Len(run[r].out) = 2
        /\ run[r].out[1].tool_call_id = 2
        /\ run[r].out[1].content # run[r].out[2].content

\* C8: the State is append-only across steps, suspensions and resumes: every
\* stored State is a prefix of the States stored after it, a run's working
\* State extends the one it loaded, and each transition leaves the Messages
\* already stored for a thread as they were; the canonicalization done for
\* the model call does not reach the stored State.
C8_AppendOnly ==
    /\ [](\A t \in Threads : \A i, j \in 1 .. Len(ckpt[t]) :
              i <= j => IsPrefix(ckpt[t][i].state, ckpt[t][j].state))
    /\ [](\A r \in Runs : run[r].pc \in InFlight =>
              IsPrefix(ReadLatest(run[r].thread).state, run[r].work))
    /\ [][\A t \in Threads :
              IsPrefix(ReadLatest(t).state, ReadLatest(t)'.state)]_vars
    /\ [][\A r \in Runs :
              (run[r].pc \in InFlight /\ run'[r].thread = run[r].thread) =>
                  IsPrefix(run[r].work, run'[r].work)]_vars

\* A thread that was suspended, resumed, and stepped through AGENT again
\* after a structured tool result had been stored.
C8_Witness ==
    \E t \in Threads : \E i, j, k \in 1 .. Len(ckpt[t]) :
        /\ i < j /\ j < k
        /\ ckpt[t][i].pending
        /\ Last(ckpt[t][j].state).cls = "LiberalToolMessage"
        /\ Last(ckpt[t][j].state).content.kind = "obj"
        /\ Last(ckpt[t][k].state).cls = "AIMessage"
        /\ ckpt[t][k].state[Len(ckpt[t][j].state)] = Last(ckpt[t][j].state)

\* C9: for each thread the checkpoints are as many as the completed steps,
\* the i-th one carries step index i, a step's completion writes exactly one
\* checkpoint, nothing else writes any, and the checkpoints already written
\* stay as they are.
C9_OneCheckpointPerStep ==
    /\ [](\A t \in Threads :
              /\ Len(ckpt[t]) = steps_done[t]
              /\ \A i \in 1 .. Len(ckpt[t]) : ckpt[t][i].index = i)
    /\ [][\A t \in Threads :
              /\ IsPrefix(ckpt[t], ckpt'[t])
              /\ Len(ckpt'[t]) - Len(ckpt[t]) = steps_done'[t] - steps_done[t]
              /\ steps_done'[t] - steps_done[t] \in {0, 1}]_vars

\* A run in its third step on a thread that an earlier run had advanced:
\* checkpoints written by steps after which the run went on.
C9_Witness ==
    \E r \in Runs :
        /\ run[r].pc = "at_node"
        /\ run[r].steps = 2
        /\ Len(ckpt[run[r].thread]) >= 3
        /\ Last(ckpt[run[r].thread]).index = Len(ckpt[run[r].thread])

Completes(r) == run[r].pc = "step_done" /\ run'[r].pc \notin {"step_done", "error"}
\* The invocation of run r begins in this transition, entering the graph.
Enters(r) == run[r].pc = "accepted" /\ run'[r].pc = "at_node"
\* A Message of s is a tool result with a structured payload.
HasStructuredResult(s) ==
    \E i \in 1 .. Len(s) :
        s[i].cls = "LiberalToolMessage" /\ s[i].content.kind = "obj"

BatchFails(r) ==
    /\ run[r].pc = "action_wait"
    /\ run'[r].pc # "action_wait"
    /\ \E i \in 1 .. Len(run[r].actions) : run[r].responses[i] = NoResp
\* The run ended on a failed tool call.
ToolFailed(r) == run[r].pc = "error" /\ run[r].err = "ToolExecutionError"

\* C12: when a call of a dispatched batch fails the ACTION step fails with
\* the tool execution error and the run ends: the State keeps ending at the
\* assistant Message that asked for the batch, no tool Message of the batch
\* is appended, those of the calls that had returned included, no step is
\* counted and no checkpoint is written.
C12_ToolFailureAbortsStep ==
    /\ [][\A r \in Runs : BatchFails(r) =>
              /\ ToolFailed(r)'
              /\ run'[r].work = run[r].work
              /\ run'[r].out = <<>>
              /\ run'[r].steps = run[r].steps
              /\ UNCHANGED <<ckpt, steps_done, done>>
              /\ lock'[run[r].thread] = 0]_vars
    /\ [](\A r \in Runs : ToolFailed(r) =>
              /\ Last(run[r].work).cls = "AIMessage"
              /\ ToolCallsOf(Last(run[r].work)) >= 1
              /\ ReadLatest(run[r].thread).state = run[r].work
              /\ ReadLatest(run[r].thread).next = "action")

\* A batch of two calls of which one had returned when the other failed.
C12_Witness ==
    \E r \in Runs :
        /\ ToolFailed(r)
        /\ Len(run[r].actions) = 2
        /\ \E i, j \in 1 .. 2 :
              run[r].responses[i] # NoResp /\ run[r].responses[j] = NoResp

\* The request of run r names a thread that does not exist for the caller,
\* or is a stream request on a thread whose assistant does not exist.
NotFound(r) ==
    /\ run[r].kind # None
    /\ \/ ~threads[run[r].thread]
       \/ run[r].kind = "stream" /\ ~assistant.exists

\* C13: a create or stream request for a thread that does not exist, and a
\* stream request for a thread whose assistant does not exist, is rejected
\* (404) and starts nothing: the executor is not invoked, no step, model call
\* or tool call is made, and the thread named gets no checkpoint and no lock.
C13_NotFoundStartsNothing ==
    \A r \in Runs :
        NotFound(r) =>
            /\ run[r].pc = "rejected"
            /\ NeverStarted(r)
            /\ run[r].checkpoint_at = None
            /\ ~threads[run[r].thread] =>
                  ckpt[run[r].thread] = <<>> /\ lock[run[r].thread] = 0

\* One client's create request was rejected for a missing thread, the other
\* client's stream request for the missing assistant of an existing thread.
C13_Witness ==
    \E r1, r2 \in Runs :
        /\ run[r1].pc = "rejected" /\ run[r1].kind = "create"
        /\ ~threads[run[r1].thread]
        /\ run[r2].pc = "rejected" /\ run[r2].kind = "stream"
        /\ threads[run[r2].thread] /\ ~assistant.exists

\* The stored configuration names a known agent type, or none, and meets the
\* retrieval prerequisites: every other field may be absent.
OnlyDefaultsMissing(config) ==
    /\ Get(config.agent_type, "GPT 3.5 Turbo") \in AgentType
    /\ ~RetrievalWithoutIds(config)
\* The run failed inside the AGENT node before the model was reached.
FailedResolving(r) ==
    /\ run[r].pc = "error"
    /\ run[r].node = "agent"
    /\ run[r].err \in {"TypeError", "ValueError"}

\* C14: a configuration that omits fields other than the agent type and the
\* retrieval prerequisites resolves without error: the request is not
\* refused, the AGENT node does not fail on the configuration, and an absent
\* interrupt flag means no suspension.
C14_DefaultsResolve ==
    \A r \in Runs :
        (Launched(r) /\ OnlyDefaultsMissing(assistant.config)) =>
            /\ run[r].pc # "config_error"
            /\ ~FailedResolving(r)
            /\ ~assistant.config.interrupt_before_action => run[r].pc # "suspended"

\* A run whose configuration omits the tool roster, and nothing else that is
\* required, accepted by the resolver and failed in its first AGENT step
\* with the TypeError of get_tools, before any model call.
C14_Witness ==
    \E r \in Runs :
        /\ OnlyDefaultsMissing(run[r].config)
        /\ run[r].config.tools.is_none
        /\ run[r].config.agent_type = "Claude 2"
        /\ FailedResolving(r)
        /\ run[r].err = "TypeError"
        /\ run[r].steps = 0
        /\ run[r].model_calls = 0

\* The node whose step wrote a checkpoint: AGENT appends the model's reply,
\* ACTION the tool results.
WrittenBy(c) == IF Last(c.state).cls = "AIMessage" THEN "agent" ELSE "action"

\* C15: every run follows the graph's topology. A run given input begins at
\* AGENT (a re-invocation continues a suspended run at its pending ACTION);
\* a completed ACTION step leads to AGENT and to nothing else; a run reaches
\* END only from an AGENT step. On a thread, the first step is an AGENT step,
\* an ACTION step comes right after the AGENT step that asked for it and is
\* followed, if by anything, by an AGENT step; a reply without tool calls to
\* one Human Message ends the run with State [Human, Assistant].
C15_FixedTopology ==
    /\ [](\A r \in Runs :
              (run[r].pc = "at_node" /\ run[r].steps = 0 /\ ~run[r].confirmed)
                  => run[r].node = EntryPoint /\ EntryPoint = "agent")
    /\ [][\A r \in Runs : Completes(r) =>
              /\ run[r].node = "action" => run'[r].node = "agent"
              /\ run'[r].pc = "end" => run[r].node = "agent" /\ run'[r].node = END]_vars
    /\ [](\A t \in Threads : \A i \in 1 .. Len(ckpt[t]) :
              LET c == ckpt[t][i]
              IN  /\ i = 1 => WrittenBy(c) = "agent"
                  /\ c.next = END => WrittenBy(c) = "agent"
                  /\ WrittenBy(c) = "action" =>
                        /\ c.next = "agent"
                        /\ i > 1
                        /\ WrittenBy(ckpt[t][i - 1]) = "agent"
                        /\ ckpt[t][i - 1].next = "action"
                        /\ i < Len(ckpt[t]) => WrittenBy(ckpt[t][i + 1]) = "agent"
                  /\ (i = 1 /\ Len(ckpt[t]) = 1 /\ c.next = END) =>
                        /\ Len(c.state) = 2
                        /\ c.state[1].cls = "HumanMessage"
                        /\ c.state[2].cls = "AIMessage")

\* A run that asked for one tool call went AGENT, ACTION, AGENT, END on one
\* thread, while on the other a run went AGENT, END.
C15_Witness ==
    \E r \in Runs : \E t, u \in Threads :
        /\ run[r].pc = "end" /\ run[r].thread = t /\ run[r].steps = 3
        /\ Len(ckpt[t]) = 3
        /\ WrittenBy(ckpt[t][1]) = "agent" /\ ToolCallsOf(Last(ckpt[t][1].state)) = 1
        /\ WrittenBy(ckpt[t][2]) = "action"
        /\ WrittenBy(ckpt[t][3]) = "agent" /\ ckpt[t][3].next = END
        /\ u # t
        /\ Len(ckpt[u]) = 1 /\ ckpt[u][1].next = END

\* Every call of the batch run r dispatched has returned.
AllReturned(r) == \A i \in 1 .. Len(run[r].actions) : run[r].responses[i] # NoResp

\* C16: the batch of an ACTION step is a join barrier. While calls are
\* outstanding the run holds no tool Message and the thread's latest
\* checkpoint is still the State the step began with; the wait ends only with
\* every call returned, and then with one tool Message per call, or with a
\* failed call, and then with none; the step's checkpoint is written only
\* after that.
C16_JoinBarrier ==
    /\ [](\A r \in Runs :
              /\ run[r].pc = "action_wait" =>
                    /\ run[r].out = <<>>
                    /\ ReadLatest(run[r].thread).state = run[r].work
                    /\ Len(run[r].work) \notin done[run[r].thread]
              /\ ActionDone(r) =>
                    /\ AllReturned(r)
                    /\ Len(run[r].out) = Len(run[r].actions)
                    /\ ReadLatest(run[r].thread).state = run[r].work)
    /\ [][\A r \in Runs : run[r].pc = "action_wait" =>
              /\ ckpt'[run[r].thread] = ckpt[run[r].thread]
              /\ steps_done'[run[r].thread] = steps_done[run[r].thread]
              /\ run'[r].work = run[r].work
              /\ run'[r].pc \in {"action_wait", "step_done", "error"}
              /\ run'[r].pc = "step_done" => AllReturned(r)
              /\ run'[r].pc = "error" => ~AllReturned(r)]_vars

\* A run waiting at the barrier: of its two calls the second has returned,
\* the first has not.
C16_Witness ==
    \E r \in Runs :
        /\ run[r].pc = "action_wait"
        /\ Len(run[r].actions) = 2
        /\ run[r].responses[1] = NoResp
        /\ run[r].responses[2] # NoResp

\* Run r is at the AGENT node, about to call the model.
AtAgent(r) == run[r].pc = "at_node" /\ run[r].node = "agent"
\* The run ended on a failure of the model backend.
ModelFailed(r) == run[r].pc = "error" /\ run[r].err = "ModelInvocationError"

\* C17: an AGENT step invokes the model at most once. When the invocation
\* fails the run ends with the model's error: the State is left as it was,
\* no Message is appended, no step is counted, no checkpoint is written, and
\* the run executes nothing more; only a new request uses its slot again.
C17_ModelFailureEndsRun ==
    /\ [][\A r \in Runs : (AtAgent(r) /\ run'[r].pc # "at_node") =>
              /\ run'[r].model_calls <= run[r].model_calls + 1
              /\ run'[r].pc \in {"step_done", "error"}
              /\ run'[r].pc = "step_done" =>
                    run'[r].model_calls = run[r].model_calls + 1
              /\ run'[r].pc = "error" =>
                    /\ run'[r].work = run[r].work
                    /\ run'[r].out = <<>>
                    /\ run'[r].steps = run[r].steps
                    /\ ckpt'[run[r].thread] = ckpt[run[r].thread]
                    /\ lock'[run[r].thread] = 0]_vars
    /\ [][\A r \in Runs : (ModelFailed(r) /\ run'[r] # run[r]) =>
              /\ budget'[r] = budget[r] - 1
              /\ run'[r].pc \in {"accepted", "rejected", "config_error"}
              /\ run'[r].steps = 0 /\ run'[r].model_calls = 0]_vars

\* A run whose model failed in the AGENT step after an ACTION step: two
\* steps completed, and the failed invocation was the run's second.
C17_Witness ==
    \E r \in Runs :
        /\ ModelFailed(r)
        /\ run[r].steps = 2
        /\ run[r].model_calls = 2
        /\ Last(run[r].work).cls = "LiberalToolMessage"
        /\ ReadLatest(run[r].thread).state = run[r].work

\* No run is inside the graph on thread t.
Quiet(t) == \A r \in Runs : run[r].thread = t => run[r].pc \notin InFlight
\* Thread t waits for confirmation: its latest checkpoint is tagged pending.
Pending(t) == ReadLatest(t).pending

\* C18: a run suspends only before an ACTION, at the end of the AGENT step
\* that asked for it, and never when interrupt_before_action is unset: such
\* a run returns only at END or with an error. A thread waiting for
\* confirmation stays as it is while no run is inside the graph on it, its
\* pending batch unexecuted; the batch is dispatched only by a run
\* re-invoked without input.
C18_SuspendOnlyBeforeAction ==
    /\ [](\A r \in Runs :
              /\ (Launched(r) /\ ~run[r].config.interrupt_before_action) =>
                    run[r].pc # "suspended"
              /\ run[r].pc = "suspended" =>
                    /\ run[r].node = "action"
                    /\ ToolCallsOf(Last(run[r].work)) >= 1)
    /\ [][\A r \in Runs : Suspends(r) =>
              run[r].pc = "step_done" /\ run[r].node = "agent"]_vars
    /\ [](\A t \in Threads : Pending(t) =>
              /\ Len(ReadLatest(t).state) \notin done[t]
              /\ \A r \in Runs : (run[r].thread = t /\ AtAction(r)) =>
                    run[r].input = <<>> /\ run[r].confirmed)
    /\ [][\A t \in Threads : (Pending(t) /\ Quiet(t)) =>
              /\ ckpt'[t] = ckpt[t]
              /\ done'[t] = done[t]
              /\ lock'[t] = lock[t] \/ \E r \in Runs : Enters(r) /\ run[r].thread = t]_vars

\* A thread still waiting for confirmation, its batch unexecuted, after the
\* client's next request ran on the other thread and was suspended there.
C18_Witness ==
    \E t \in Threads : \E r \in Runs :
        /\ Pending(t)
        /\ Len(ReadLatest(t).state) \notin done[t]
        /\ run[r].thread # t
        /\ run[r].pc = "suspended"
        /\ run[r].steps >= 1
        /\ budget[r] = MaxRequests - 2

\* The role of a Message: the tool role is that of both tool Message classes.
Role(m) ==
    IF m.cls = "HumanMessage" THEN "human"
    ELSE IF m.cls = "AIMessage" THEN "ai"
    ELSE IF m.cls = "SystemMessage" THEN "system"
    ELSE IF m.cls = "FunctionMessage" THEN "function"
    ELSE "tool"
\* The system text the run's configuration gives, or the default one.
SystemText(r) == Get(run[r].config.system_message, DEFAULT_SYSTEM_MESSAGE)
\* The text rendering of a content: the same payload, as text.
AsText(c) == [kind |-> "text", val |-> c.val]

\* C19: for the State of n Messages an AGENT step works on, the mapping gives
\* the model n+1 Messages: first a system Message of the configured system
\* text, then the State's Messages in their order; a function-role Message
\* is replaced by a human Message holding its content as text, every other
\* Message keeps its role, and all but the tool results are handed on
\* unchanged. The AGENT step then appends exactly one Message, the reply.
C19_MessageMapping ==
    /\ [](\A r \in Runs : AtAgent(r) =>
              LET n == Len(run[r].work)
                  p == get_messages(run[r].work, SystemText(r))
              IN  /\ Len(p) = n + 1
                  /\ p[1] = SystemMessage(Text(SystemText(r)))
                  /\ \A i \in 1 .. n :
                        LET m == run[r].work[i]
                            q == p[i + 1]
                        IN  /\ Role(m) = "function" =>
                                  q = HumanMessage(AsText(m.content))
                            /\ Role(m) # "function" => Role(q) = Role(m)
                            /\ Role(m) \notin {"function", "tool"} => q = m
                            /\ Role(m) = "tool" =>
                                  /\ q.tool_call_id = m.tool_call_id
                                  /\ q.name = m.name
                                  /\ q.content.val = m.content.val)
    /\ [][\A r \in Runs : (AtAgent(r) /\ run'[r].pc = "step_done") =>
              /\ agent(run[r].work, run[r].config, run'[r].out[1]).prompt
                    = get_messages(run[r].work, SystemText(r))
              /\ Len(run'[r].out) = 1
              /\ Role(run'[r].out[1]) = "ai"]_vars
    /\ [][\A r \in Runs : (Completes(r) /\ run[r].node = "agent") =>
              /\ Len(run'[r].work) = Len(run[r].work) + 1
              /\ IsPrefix(run[r].work, run'[r].work)
              /\ Last(run'[r].work) = run[r].out[1]]_vars

\* An AGENT step completed on a State of a tool Message and a function-role
\* Message of structured content, under a configured system text.
C19_Witness ==
    \E r \in Runs :
        /\ run[r].pc \in Returned
        /\ run[r].steps = 1
        /\ Len(run[r].work) = 3
        /\ Role(run[r].work[1]) = "tool"
        /\ Role(run[r].work[2]) = "function"
        /\ run[r].work[2].content.kind = "obj"
        /\ Role(run[r].work[3]) = "ai"
        /\ run[r].config.system_message = "Be brief."

\* Everything the model keeps for thread t apart from the runs on it.
ThreadState(t) == <<ckpt[t], lock[t], done[t], steps_done[t]>>

\* C20: threads are independent. A transition is made by one run, and it
\* leaves every other run as it was and changes the checkpoints, the lock,
\* the executed batches and the step count of no thread but that run's own,
\* whatever the other thread's run is in the middle of.
C20_ThreadsIndependent ==
    [][\A r \in Runs : run'[r] # run[r] =>
          /\ \A q \in Runs \ {r} : run'[q] = run[q]
          /\ \A u \in Threads \ {run'[r].thread} : ThreadState(u)' = ThreadState(u)
          /\ run[r].pc \in InFlight => run'[r].thread = run[r].thread]_vars

\* One client's run has failed on its thread after a completed step while
\* the other client's run, on the other thread, is in the middle of a step
\* with a checkpoint already written.
C20_Witness ==
    \E r1, r2 \in Runs :
        /\ run[r1].thread # run[r2].thread
        /\ run[r1].pc = "error"
        /\ ckpt[run[r1].thread] # <<>>
        /\ run[r2].pc \in InStep
        /\ ckpt[run[r2].thread] # <<>>
        /\ lock[run[r2].thread] = r2

\* The step of run r ends in this transition without a checkpoint written
\* for its thread.
EndsUnpersisted(r) ==
    /\ run[r].pc = "step_done"
    /\ run'[r].pc # "step_done"
    /\ ckpt'[run[r].thread] = ckpt[run[r].thread]
\* The run was aborted on a failed checkpoint write.
WriteFailed(r) == run[r].pc = "error" /\ run[r].err = "CheckpointWriteError"

\* C21: a step that ends without its checkpoint written ends the run with
\* the checkpoint write error, nothing of the step kept and the thread's lock
\* released; the aborted run executes nothing more. So a run is at the start
\* of a step only on persisted State: the thread's latest checkpoint, which
\* the first step of a request extends by the request's input.
C21_WriteFailureAborts ==
    /\ [][\A r \in Runs : EndsUnpersisted(r) =>
              /\ WriteFailed(r)'
              /\ run'[r].work = run[r].work
              /\ run'[r].steps = run[r].steps
              /\ run'[r].out = <<>>
              /\ steps_done'[run[r].thread] = steps_done[run[r].thread]
              /\ lock'[run[r].thread] = 0]_vars
    /\ [][\A r \in Runs : (WriteFailed(r) /\ run'[r] # run[r]) =>
              /\ budget'[r] = budget[r] - 1
              /\ run'[r].steps = 0]_vars
    /\ [](\A r \in Runs : run[r].pc = "at_node" =>
              run[r].work =
                  IF run[r].steps = 0 /\ ~run[r].confirmed
                  THEN ReadLatest(run[r].thread).state \o run[r].input
                  ELSE ReadLatest(run[r].thread).state)

\* C21 as stated: at the start of every step, the first step of a request
\* included, the working State equals the thread's latest persisted
\* checkpoint.
C21_EveryStepOnPersisted ==
    \A r \in Runs : run[r].pc = "at_node" =>
        run[r].work = ReadLatest(run[r].thread).state

\* A run aborted when the checkpoint of its ACTION step could not be
\* written: the tool results are not in the thread's latest State, which
\* still ends at the assistant Message that asked for them.
C21_Witness ==
    \E r \in Runs :
        /\ WriteFailed(r)
        /\ run[r].node = "action"
        /\ run[r].steps = 1
        /\ run[r].tool_calls >= 1
        /\ ReadLatest(run[r].thread).state = run[r].work
        /\ ReadLatest(run[r].thread).index = 1
        /\ ToolCallsOf(Last(run[r].work)) >= 1

\* The last Message of s is an assistant Message asking for tool calls.
AsksForTools(s) ==
    /\ Len(s) >= 1
    /\ Last(s).cls = "AIMessage"
    /\ ToolCallsOf(Last(s)) >= 1

\* C22: the ACTION node is entered, and call_tool runs, only on a State
\* whose last Message is an assistant Message with at least one tool call:
\* when routed there after an AGENT step and when re-invoked on a pending
\* checkpoint alike. call_tool therefore builds at least one invocation and
\* never fails on the class of the last Message.
C22_ActionOnlyOnToolCalls ==
    /\ [](\A r \in Runs :
              /\ (run[r].pc = "at_node" /\ run[r].node = "action") =>
                    AsksForTools(run[r].work)
              /\ run[r].pc = "action_wait" =>
                    /\ AsksForTools(run[r].work)
                    /\ Len(run[r].actions) = ToolCallsOf(Last(run[r].work))
                    /\ Len(run[r].actions) >= 1
              /\ run[r].err # "AttributeError")
    /\ [](\A t \in Threads : \A i \in 1 .. Len(ckpt[t]) :
              (ckpt[t][i].next = "action" \/ ckpt[t][i].pending) =>
                  AsksForTools(ckpt[t][i].state))
    /\ [][\A r \in Runs : (Enters(r) /\ run'[r].node = "action") =>
              /\ run[r].input = <<>>
              /\ Pending(run[r].thread)
              /\ AsksForTools(run'[r].work)]_vars

\* call_tool running on a batch of two calls after the run was suspended
\* before it and re-invoked without input.
C22_Witness ==
    \E r \in Runs :
        /\ run[r].pc = "action_wait"
        /\ run[r].confirmed
        /\ run[r].steps = 0
        /\ Len(run[r].actions) = 2
        /\ Pending(run[r].thread)

\* The States a run has reached: the working State of every run and every
\* State stored for a thread, each with its thread.
ReachedStates ==
    { <<run[r].thread, run[r].work>> : r \in { q \in Runs : Launched(q) } }
        \cup UNION { { <<t, ckpt[t][i].state>> : i \in 1 .. Len(ckpt[t]) } :
                       t \in Threads }
\* The assistant Message at position i of s is answered: right after it come
\* exactly as many tool Messages as it has tool calls, and their call ids and
\* names are those of its tool calls, position by position.
Answered(s, i) ==
    LET calls == s[i].tool_calls
        k == Len(calls)
    IN  /\ i + k <= Len(s)
        /\ \A j \in 1 .. k :
              /\ Role(s[i + j]) = "tool"
              /\ s[i + j].tool_call_id = calls[j].id
              /\ s[i + j].name = calls[j].name
        /\ i + k < Len(s) => Role(s[i + k + 1]) # "tool"
\* The run ended at END after executing at least one step.
EndedNormally(r) == run[r].pc = "end" /\ run[r].steps >= 1

\* C23 as stated: in every State reached, every assistant Message that is
\* not the last Message is answered, and a run that ended at END has a last
\* Message without tool calls.
C23_EveryToolCallAnswered ==
    /\ \A ts \in ReachedStates : \A i \in 1 .. Len(ts[2]) - 1 :
          ts[2][i].cls = "AIMessage" => Answered(ts[2], i)
    /\ \A r \in Runs : EndedNormally(r) => ToolCallsOf(Last(run[r].work)) = 0

\* C23, amended: an assistant Message that is not the last Message is
\* answered exactly when its batch was executed by a completed ACTION step;
\* one whose ACTION step was never run or did not complete (the run was
\* suspended and not confirmed, stopped at the step bound, or failed) stays
\* unanswered and is followed by the next request's input. A run that ended
\* at END has a last Message without tool calls.
C23_ExecutedToolCallsAnswered ==
    /\ \A ts \in ReachedStates : \A i \in 1 .. Len(ts[2]) - 1 :
          LET t == ts[1]
              s == ts[2]
          IN  s[i].cls = "AIMessage" =>
                  IF ToolCallsOf(s[i]) = 0 \/ i \in done[t]
                  THEN Answered(s, i)
                  ELSE Role(s[i + 1]) # "tool"
    /\ \A r \in Runs : EndedNormally(r) => ToolCallsOf(Last(run[r].work)) = 0

\* A thread whose State holds an unanswered tool call, left by a run that
\* failed in ACTION, then the next request's input, and then a tool call
\* that was executed and answered.
C23_Witness ==
    \E t \in Threads :
        LET s == ReadLatest(t).state
        IN  /\ Len(s) = 5
            /\ s[2].cls = "AIMessage" /\ ToolCallsOf(s[2]) >= 1 /\ 2 \notin done[t]
            /\ s[3].cls = "HumanMessage"
            /\ s[4].cls = "AIMessage" /\ ToolCallsOf(s[4]) = 1 /\ 4 \in done[t]
            /\ s[5].cls = "LiberalToolMessage"
            /\ s[5].tool_call_id = s[4].tool_calls[1].id

\* The request of run r was handed to the executor by the named route.
Handed(r, kind) == Launched(r) /\ run[r].kind = kind

\* C24: the pause before ACTION that stream_run asks of the executor is the
\* stored assistant's interrupt_before_action entry and nothing else: two
\* stream requests on one thread, whatever config their payloads carry, ask
\* for the same setting; create_run never asks for a pause.
C24_PauseFromStoredConfigOnly ==
    /\ \A r \in Runs : Handed(r, "stream") =>
          run[r].interrupt_before = assistant.config.interrupt_before_action
    /\ \A r1, r2 \in Runs :
          (Handed(r1, "stream") /\ Handed(r2, "stream")
              /\ run[r1].thread = run[r2].thread)
              => run[r1].interrupt_before = run[r2].interrupt_before
    /\ \A r \in Runs : Handed(r, "create") => ~run[r].interrupt_before

\* Two stream requests on one thread whose payload configs differ, both
\* asking for the pause the stored assistant is configured with.
C24_Witness ==
    \E r1, r2 \in Runs :
        /\ Handed(r1, "stream") /\ Handed(r2, "stream")
        /\ run[r1].thread = run[r2].thread
        /\ run[r1].recursion_limit = 0
        /\ run[r2].recursion_limit = ConfiguredLimit
        /\ run[r1].interrupt_before /\ run[r2].interrupt_before
====
